---- MODULE Spec2Model ----
(***************************************************************************)
(* A model of the rule-based obstetric prediction engine of                *)
(* src/PredictionEngine.js: class PredictionEngine and the static          *)
(* reference table BMIAverageCalculator.                                   *)
(*                                                                         *)
(* Numbers.  Every JavaScript number that enters the engine is held as an  *)
(* integer count of tenths (39.5 weeks is 395, 120 mmHg is 1200), so the   *)
(* inputs of the model are the decimals with one fractional digit.         *)
(* Probabilities and risk scores are held in hundredths (0.80 is 80).      *)
(* Values that the code derives by division (trends, trend-adjusted        *)
(* progression values) are exact rationals [num, den].  The model computes *)
(* in exact arithmetic where the code computes in IEEE doubles.            *)
(***************************************************************************)
EXTENDS Integers, Sequences, FiniteSets, TLC

VARIABLES
    visits,           \* this.visits
    patient,          \* this.patient
    validatedVisits,  \* this.validatedVisits
    pc,               \* "start" | "ready" | "threw": the engine object's life
    ret,              \* outcome of the last call made on the engine
    arg               \* argument of the pure function a specification applies

vars == <<visits, patient, validatedVisits, pc, ret, arg>>

----------------------------------------------------------------------------
(* Bounds of the model *)

MaxVisits == 2      \* longest visits array the engine is constructed with
MaxBpLen == 4       \* longest blood-pressure string drawn character by character
MaxSeed == 1        \* seeds of the pseudo-random source: 0..MaxSeed
MaxSeries == 17     \* longest patient series handed to calculateDeviation

----------------------------------------------------------------------------
(* JavaScript values: one record shape for every value, tagged by t.       *)
(* n is the number (in tenths), s the characters of a string.              *)

Undef == [t |-> "undefined", n |-> 0, s |-> <<>>]
Null == [t |-> "null", n |-> 0, s |-> <<>>]
NaN == [t |-> "nan", n |-> 0, s |-> <<>>]
Obj == [t |-> "object", n |-> 0, s |-> <<>>]
Num(x) == [t |-> "number", n |-> x, s |-> <<>>]
Str(cs) == [t |-> "string", n |-> 0, s |-> cs]

\* x whole units, in tenths
D(x) == 10 * x

Min(a, b) == IF a <= b THEN a ELSE b
Max(a, b) == IF a >= b THEN a ELSE b
Abs(a) == IF a < 0 THEN -a ELSE a

\* ToBoolean: what `!v`, `v || d` and `if (v)` test
Truthy(v) ==
    CASE v.t = "number" -> v.n # 0
      [] v.t = "string" -> v.s # <<>>
      [] v.t \in {"object", "array"} -> TRUE
      [] OTHER -> FALSE

\* v || d
Or(v, d) == IF Truthy(v) THEN v ELSE d

Digits == <<"0", "1", "2", "3", "4", "5", "6", "7", "8", "9">>

IsDigit(c) == \E k \in 1..10 : Digits[k] = c

DigitVal(c) == (CHOOSE k \in 1..10 : Digits[k] = c) - 1

RECURSIVE DigitsVal(_)
DigitsVal(cs) ==
    IF cs = <<>> THEN 0
    ELSE 10 * DigitsVal(SubSeq(cs, 1, Len(cs) - 1)) + DigitVal(cs[Len(cs)])

\* Number(string) over the characters the model uses (digits, "/", letters):
\* the empty string is 0, a run of digits is its decimal value, anything
\* else is NaN
StringToNumber(cs) ==
    IF cs = <<>> THEN Num(0)
    ELSE IF \A k \in 1..Len(cs) : IsDigit(cs[k]) THEN Num(D(DigitsVal(cs)))
    ELSE NaN

\* ToNumber: the coercion of `a - b`, `a < b`, `a > b`
ToNumber(v) ==
    CASE v.t = "number" -> v
      [] v.t = "null" -> Num(0)
      [] v.t = "string" -> StringToNumber(v.s)
      [] OTHER -> NaN

\* a < b and a > b on JavaScript values against a number in tenths: a
\* comparison with NaN is false
Less(v, x) == ToNumber(v).t = "number" /\ ToNumber(v).n < x
Greater(v, x) == ToNumber(v).t = "number" /\ ToNumber(v).n > x

\* String.prototype.split, as the segments between occurrences of sep
RECURSIVE Split(_, _)
Split(cs, sep) ==
    IF \A k \in 1..Len(cs) : cs[k] # sep THEN <<cs>>
    ELSE LET k == CHOOSE i \in 1..Len(cs) :
                      cs[i] = sep /\ \A j \in 1..(i - 1) : cs[j] # sep
         IN <<SubSeq(cs, 1, k - 1)>> \o Split(SubSeq(cs, k + 1, Len(cs)), sep)

----------------------------------------------------------------------------
(* parseBloodPressure *)

DefaultSystolic == 115
DefaultDiastolic == 70

DefaultBP == [systolic |-> D(DefaultSystolic), diastolic |-> D(DefaultDiastolic)]

\* The try block: bpString.split('/').map(Number), then the two `||`
\* defaults.  A truthy value that is no string has no split method: the call
\* raises a TypeError.
ParseBody(bpString) ==
    IF bpString.t # "string" THEN [threw |-> TRUE, v |-> DefaultBP]
    ELSE LET segs == Split(bpString.s, "/")
             parts == [k \in 1..Len(segs) |-> StringToNumber(segs[k])]
             p0 == parts[1]
             p1 == IF Len(parts) >= 2 THEN parts[2] ELSE Undef
         IN [threw |-> FALSE,
             v |-> [systolic |-> Or(p0, Num(D(DefaultSystolic))).n,
                    diastolic |-> Or(p1, Num(D(DefaultDiastolic))).n]]

\* mutant: the try block without its catch
ParseBloodPressureNoCatch(bpString) ==
    IF ~Truthy(bpString) THEN [threw |-> FALSE, v |-> DefaultBP]
    ELSE ParseBody(bpString)

ParseBloodPressure(bpString) ==
    IF ~Truthy(bpString) THEN [threw |-> FALSE, v |-> DefaultBP]
    ELSE IF ParseBody(bpString).threw THEN [threw |-> FALSE, v |-> DefaultBP]
    ELSE ParseBody(bpString)

----------------------------------------------------------------------------
(* The constructor's arguments *)

\* an array value, and a value that is no array, as the `visits` argument
Arr(es) == [t |-> "array", n |-> 0, s |-> <<>>, elems |-> es]
NotArr(v) == [t |-> v.t, n |-> v.n, s |-> v.s, elems |-> <<>>]

VisitFields ==
    {"GESTATIONAL_AGE_WEEKS", "MATERNAL_WEIGHT", "FUNDAL_HEIGHT",
     "HEMOGLOBIN_LEVEL", "BLOOD_PRESSURE", "FETAL_HEART_RATE",
     "COMPLICATIONS", "VISIT_DATE"}

\* an element of the visits array: an object with the eight recognized
\* properties and one the engine does not know (absent properties are Undef),
\* or a value that is no object (its f is not read)
RawVisit(ga, w, fh, hb, bp, fhr) ==
    [t |-> "object",
     f |-> [GESTATIONAL_AGE_WEEKS |-> ga, MATERNAL_WEIGHT |-> w,
            FUNDAL_HEIGHT |-> fh, HEMOGLOBIN_LEVEL |-> hb,
            BLOOD_PRESSURE |-> bp, FETAL_HEART_RATE |-> fhr,
            COMPLICATIONS |-> Undef, VISIT_DATE |-> Str(<<"2", "0", "2", "5">>),
            PATIENT_ID |-> Num(D(7))]]

NoFields == RawVisit(Undef, Undef, Undef, Undef, Undef, Undef).f
NullElem == [t |-> "null", f |-> NoFields]
NumberElem == [t |-> "number", f |-> NoFields]

PatientFields == {"AGE", "BMI_VALUE", "PARITY", "MEDICAL_HISTORY", "BMI_STATUS"}

PatientObj(age, bmi, parity, history) ==
    [t |-> "object", n |-> 0, s |-> <<>>,
     f |-> [AGE |-> age, BMI_VALUE |-> bmi, PARITY |-> parity,
            MEDICAL_HISTORY |-> history, BMI_STATUS |-> Undef]]

\* {}
EmptyPatient == PatientObj(Undef, Undef, Undef, Undef)

\* a `patient` argument that is no object
NotPatient(v) == [t |-> v.t, n |-> v.n, s |-> v.s, f |-> EmptyPatient.f]

\* element.NAME: reading a property of null or undefined raises a TypeError;
\* a primitive has none of the properties
PropThrows(e) == e.t \in {"null", "undefined"}
Prop(e, name) == IF e.t = "object" THEN e.f[name] ELSE Undef

----------------------------------------------------------------------------
(* validateVisits and the constructor *)

\* the object the map callback builds: eight fields, `|| null` on each
Normalize(e) == [k \in VisitFields |-> Or(Prop(e, k), Null)]

\* mutant: the filter keeps a record whose gestational age is 0
KeepsNonNegative(v) ==
    /\ v.GESTATIONAL_AGE_WEEKS.t \in {"number", "null"}
    /\ ~Less(v.GESTATIONAL_AGE_WEEKS, 0)

\* the filter callback
Keeps(v) ==
    /\ Truthy(v.GESTATIONAL_AGE_WEEKS)
    /\ Greater(v.GESTATIONAL_AGE_WEEKS, 0)

RECURSIVE Filter(_)
Filter(vs) ==
    IF vs = <<>> THEN <<>>
    ELSE (IF Keeps(vs[1]) THEN <<vs[1]>> ELSE <<>>) \o Filter(Tail(vs))

ValidateVisits(vs) ==
    IF ~Truthy(vs) \/ vs.t # "array" THEN [threw |-> FALSE, v |-> <<>>]
    ELSE IF \E k \in 1..Len(vs.elems) : PropThrows(vs.elems[k])
    THEN [threw |-> TRUE, v |-> <<>>]
    ELSE [threw |-> FALSE,
          v |-> Filter([k \in 1..Len(vs.elems) |-> Normalize(vs.elems[k])])]

\* this.visits = visits || []
ThisVisits(v) == IF Truthy(v) THEN v ELSE Arr(<<>>)

\* this.patient = patient || {}
ThisPatient(p) == IF Truthy(p) THEN p ELSE EmptyPatient

NoRet == [op |-> "none", threw |-> FALSE]

\* new PredictionEngine(v, p)
Construct(v, p) ==
    /\ pc = "start"
    /\ visits' = ThisVisits(v)
    /\ patient' = ThisPatient(p)
    /\ validatedVisits' = ValidateVisits(ThisVisits(v)).v
    /\ pc' = IF ValidateVisits(ThisVisits(v)).threw THEN "threw" ELSE "ready"
    /\ ret' = [op |-> "constructor",
               threw |-> ValidateVisits(ThisVisits(v)).threw]
    /\ UNCHANGED arg

----------------------------------------------------------------------------
(* Rationals [num, den]; den = 0 stands for NaN *)

Rat(a, b) == [num |-> a, den |-> b]

\* Math.round(a / b) for b > 0: the nearest integer, a tie going up
MathRound(a, b) == (2 * a + b) \div (2 * b)

\* roundProbability(a / b) in hundredths: Math.round(value * 100) / 100
RoundProbability(a, b) == MathRound(100 * a, b)

\* roundValue(a / b, 1) in tenths: Number(value.toFixed(1)), a tie going away
\* from zero (on doubles toFixed decides a decimal tie by the binary value)
RoundValue1(a, b) ==
    IF a >= 0 THEN (20 * a + b) \div (2 * b) ELSE -((20 * (-a) + b) \div (2 * b))

----------------------------------------------------------------------------
(* calculateTrend *)

GA(v) == ToNumber(v.GESTATIONAL_AGE_WEEKS).n

\* x placed behind every element whose gestational age is <= its own
RECURSIVE InsertByGA(_, _)
InsertByGA(x, vs) ==
    IF vs = <<>> THEN <<x>>
    ELSE IF GA(vs[1]) <= GA(x) THEN <<vs[1]>> \o InsertByGA(x, Tail(vs))
    ELSE <<x>> \o vs

\* mutant: the collection left in the order given
SortByGAOmitted(vs) == vs

\* Array.prototype.sort((a, b) => a.GA - b.GA): ascending and stable
RECURSIVE SortByGA(_)
SortByGA(vs) ==
    IF vs = <<>> THEN <<>>
    ELSE InsertByGA(vs[Len(vs)], SortByGA(SubSeq(vs, 1, Len(vs) - 1)))

\* mutant: the slope without the guard on the week difference
CalculateTrendUnguarded(vs, field) ==
    IF Len(vs) < 2 THEN Rat(0, 1)
    ELSE LET sortedVisits == SortByGA(vs)
             first == sortedVisits[1][field]
             last == sortedVisits[Len(sortedVisits)][field]
             weekDiff == GA(sortedVisits[Len(sortedVisits)]) - GA(sortedVisits[1])
         IN IF ~Truthy(first) \/ ~Truthy(last) THEN Rat(0, 1)
            ELSE Rat(ToNumber(last).n - ToNumber(first).n, weekDiff)

CalculateTrend(vs, field) ==
    IF Len(vs) < 2 THEN Rat(0, 1)
    ELSE LET sortedVisits == SortByGA(vs)
             first == sortedVisits[1][field]
             last == sortedVisits[Len(sortedVisits)][field]
             weekDiff == GA(sortedVisits[Len(sortedVisits)]) - GA(sortedVisits[1])
         IN IF ~Truthy(first) \/ ~Truthy(last) THEN Rat(0, 1)
            ELSE IF weekDiff > 0
            THEN IF ToNumber(last).t = "number" /\ ToNumber(first).t = "number"
                 THEN Rat(ToNumber(last).n - ToNumber(first).n, weekDiff)
                 ELSE Rat(0, 0)
            ELSE Rat(0, 1)

----------------------------------------------------------------------------
(* hasPretermHistory *)

UpperCase ==
    <<"A", "B", "C", "D", "E", "F", "G", "H", "I", "J", "K", "L", "M",
      "N", "O", "P", "Q", "R", "S", "T", "U", "V", "W", "X", "Y", "Z">>
LowerCase ==
    <<"a", "b", "c", "d", "e", "f", "g", "h", "i", "j", "k", "l", "m",
      "n", "o", "p", "q", "r", "s", "t", "u", "v", "w", "x", "y", "z">>

ToLowerChar(c) ==
    IF \E k \in 1..26 : UpperCase[k] = c
    THEN LowerCase[CHOOSE k \in 1..26 : UpperCase[k] = c]
    ELSE c

ToLowerCase(cs) == [k \in 1..Len(cs) |-> ToLowerChar(cs[k])]

Includes(cs, sub) ==
    \E k \in 1..(Len(cs) - Len(sub) + 1) : SubSeq(cs, k, k + Len(sub) - 1) = sub

Preterm == <<"p", "r", "e", "t", "e", "r", "m">>

\* this.patient.PARITY > 0 || this.patient.PARITY === '1'
ParityPositive(p) ==
    \/ Greater(Prop(p, "PARITY"), 0)
    \/ Prop(p, "PARITY") = Str(<<"1">>)

\* MEDICAL_HISTORY?.toLowerCase(): a value that is neither null nor undefined
\* and has no toLowerCase method raises a TypeError
HasPretermHistoryThrows(p) ==
    /\ ParityPositive(p)
    /\ Prop(p, "MEDICAL_HISTORY").t \notin {"undefined", "null", "string"}

HasPretermHistory(p) ==
    /\ ParityPositive(p)
    /\ Prop(p, "MEDICAL_HISTORY").t = "string"
    /\ Includes(ToLowerCase(Prop(p, "MEDICAL_HISTORY").s), Preterm)

----------------------------------------------------------------------------
(* calculateRiskScores: the scores in hundredths *)

RiskNames ==
    <<"anemia", "hypertension", "growthRestriction", "pretermRisk",
      "maternalAgeRisk", "bmiRisk">>

DefaultAge == 25

AnemiaScore(latestVisit) ==
    IF Truthy(latestVisit.HEMOGLOBIN_LEVEL)
    THEN IF Less(latestVisit.HEMOGLOBIN_LEVEL, D(10)) THEN 80
         ELSE IF Less(latestVisit.HEMOGLOBIN_LEVEL, D(11)) THEN 40
         ELSE 10
    ELSE 0

\* mutant: the second band added to the first instead of replacing it
HypertensionScoreAdditive(latestVisit) ==
    IF Truthy(latestVisit.BLOOD_PRESSURE)
    THEN LET bp == ParseBloodPressure(latestVisit.BLOOD_PRESSURE).v
         IN (IF bp.systolic >= D(140) \/ bp.diastolic >= D(90) THEN 90 ELSE 0)
            + (IF bp.systolic >= D(130) \/ bp.diastolic >= D(85) THEN 60 ELSE 10)
    ELSE 0

HypertensionScore(latestVisit) ==
    IF Truthy(latestVisit.BLOOD_PRESSURE)
    THEN LET bp == ParseBloodPressure(latestVisit.BLOOD_PRESSURE).v
         IN IF bp.systolic >= D(140) \/ bp.diastolic >= D(90) THEN 90
            ELSE IF bp.systolic >= D(130) \/ bp.diastolic >= D(85) THEN 60
            ELSE 10
    ELSE 0

GrowthRestrictionScore(latestVisit) ==
    IF Truthy(latestVisit.FUNDAL_HEIGHT) /\ Truthy(latestVisit.GESTATIONAL_AGE_WEEKS)
    THEN LET fh == ToNumber(latestVisit.FUNDAL_HEIGHT)
             ga == ToNumber(latestVisit.GESTATIONAL_AGE_WEEKS)
             isNum == fh.t = "number" /\ ga.t = "number"
         IN IF isNum /\ Abs(fh.n - ga.n) > D(4) THEN 70
            ELSE IF isNum /\ Abs(fh.n - ga.n) > D(2) THEN 30
            ELSE 10
    ELSE 0

\* mutant: no score without a preterm history or an early week
PretermScoreNoFloor(latestVisit, p) ==
    IF Less(latestVisit.GESTATIONAL_AGE_WEEKS, D(37)) /\ HasPretermHistory(p) THEN 60
    ELSE IF Less(latestVisit.GESTATIONAL_AGE_WEEKS, D(32)) THEN 30
    ELSE 0

PretermScore(latestVisit, p) ==
    IF Less(latestVisit.GESTATIONAL_AGE_WEEKS, D(37)) /\ HasPretermHistory(p) THEN 60
    ELSE IF Less(latestVisit.GESTATIONAL_AGE_WEEKS, D(32)) THEN 30
    ELSE 10

MaternalAgeScore(p) ==
    LET age == Or(Prop(p, "AGE"), Num(D(DefaultAge)))
    IN IF Less(age, D(18)) \/ Greater(age, D(35)) THEN 40 ELSE 10

BmiScore(p) ==
    LET bmi == Prop(p, "BMI_VALUE")
    IN IF Truthy(bmi)
       THEN IF Less(bmi, 185) \/ Greater(bmi, D(30)) THEN 50
            ELSE IF Greater(bmi, D(25)) THEN 30
            ELSE 10
       ELSE 0

\* latestVisit is undefined when there is no validated visit, and reading its
\* HEMOGLOBIN_LEVEL raises a TypeError; so does hasPretermHistory, which is
\* called only when the latest gestational age is below 37
CalculateRiskScoresThrows(vs, p) ==
    \/ vs = <<>>
    \/ /\ Less(vs[Len(vs)].GESTATIONAL_AGE_WEEKS, D(37))
       /\ HasPretermHistoryThrows(p)

CalculateRiskScores(vs, p) ==
    LET latestVisit == vs[Len(vs)]
    IN [anemia |-> AnemiaScore(latestVisit),
        hypertension |-> HypertensionScore(latestVisit),
        growthRestriction |-> GrowthRestrictionScore(latestVisit),
        pretermRisk |-> PretermScore(latestVisit, p),
        maternalAgeRisk |-> MaternalAgeScore(p),
        bmiRisk |-> BmiScore(p)]

----------------------------------------------------------------------------
(* Delivery probabilities, in hundredths *)

RECURSIVE SumScores(_, _)
SumScores(riskScores, k) ==
    IF k = 0 THEN 0 ELSE riskScores[RiskNames[k]] + SumScores(riskScores, k - 1)

\* totalRisk is the sum of the six scores over 6, that is sum / 600 with the
\* scores in hundredths; the three terms are held in units of 1/6000:
\*   fullTerm      = max(0.4, 0.80 - totalRisk * 0.3)
\*   premature     = min(0.4, 0.15 + totalRisk * 0.2)
\*   mortalityRisk = min(0.2, 0.05 + totalRisk * 0.1)
\* each is divided by their sum and rounded
\* mutant: the three terms divided by the sum of the first two
CalculateDeliveryTypeWrongSum(riskScores) ==
    LET total == SumScores(riskScores, 6)
        fullTerm == Max(2400, 4800 - 3 * total)
        premature == Min(2400, 900 + 2 * total)
        mortalityRisk == Min(1200, 300 + total)
        sum == fullTerm + premature
    IN [FullTerm |-> RoundProbability(fullTerm, sum),
        Premature |-> RoundProbability(premature, sum),
        MortalityRisk |-> RoundProbability(mortalityRisk, sum)]

CalculateDeliveryTypeProbabilities(riskScores) ==
    LET total == SumScores(riskScores, 6)
        fullTerm == Max(2400, 4800 - 3 * total)
        premature == Min(2400, 900 + 2 * total)
        mortalityRisk == Min(1200, 300 + total)
        sum == fullTerm + premature + mortalityRisk
    IN [FullTerm |-> RoundProbability(fullTerm, sum),
        Premature |-> RoundProbability(premature, sum),
        MortalityRisk |-> RoundProbability(mortalityRisk, sum)]

\* this.patient.PARITY === 0 || this.patient.PARITY === '0'
ParityZero(p) ==
    \/ Prop(p, "PARITY") = Num(0)
    \/ Prop(p, "PARITY") = Str(<<"0">>)

\* the weighted sum in units of 1/1000 (scores in hundredths, weights in
\* tenths), before the cap
CSectionRaw(riskScores, p) ==
    4 * riskScores.hypertension + 3 * riskScores.growthRestriction
        + 2 * riskScores.bmiRisk + (IF ParityZero(p) THEN 100 ELSE 0)

\* mutant: the parity term added only for the number 0
CalculateDeliveryModeNumberParity(riskScores, p) ==
    LET cSectionRisk ==
            Min(700, 4 * riskScores.hypertension + 3 * riskScores.growthRestriction
                     + 2 * riskScores.bmiRisk
                     + (IF Prop(p, "PARITY") = Num(0) THEN 100 ELSE 0))
    IN [Normal |-> RoundProbability(1000 - cSectionRisk, 1000),
        CSection |-> RoundProbability(cSectionRisk, 1000)]

CalculateDeliveryModeProbabilities(riskScores, p) ==
    LET cSectionRisk == Min(700, CSectionRaw(riskScores, p))
    IN [Normal |-> RoundProbability(1000 - cSectionRisk, 1000),
        CSection |-> RoundProbability(cSectionRisk, 1000)]

----------------------------------------------------------------------------
(* calculateExpectedDelivery: both results in tenths *)

CalculateExpectedDelivery(riskScores, deliveryType) ==
    LET expectedGA ==
            IF deliveryType.Premature > 30 THEN 365
            ELSE IF deliveryType.Premature > 15 THEN 380
            ELSE 392
        expectedWeight ==
            33 - (IF riskScores.growthRestriction > 50 THEN 5 ELSE 0)
               - (IF riskScores.hypertension > 50 THEN 3 ELSE 0)
               - (IF riskScores.anemia > 50 THEN 2 ELSE 0)
               - (IF expectedGA < 375 THEN 4 ELSE 0)
    IN [expectedGestationalAge |->
            RoundValue1(Min(400, Max(350, expectedGA)), 10),
        expectedBirthWeight |->
            RoundValue1(Min(40, Max(25, expectedWeight)), 10)]

----------------------------------------------------------------------------
(* generateSummary and formatRiskName.  The sentence is held as its       *)
(* template, the risk name it substitutes (none in the low template) and  *)
(* the percentage it substitutes.                                          *)

FormatRiskName(riskKey) ==
    CASE riskKey = "growthRestriction" -> "fetal growth restriction"
      [] riskKey = "pretermRisk" -> "preterm delivery"
      [] riskKey = "maternalAgeRisk" -> "maternal age"
      [] riskKey = "bmiRisk" -> "BMI-related"
      [] OTHER -> riskKey

\* Object.entries(riskScores).reduce((a, b) => a[1] > b[1] ? a : b)[0]: the
\* accumulator after folding the first k entries
RECURSIVE PrimaryRisk(_, _)
PrimaryRisk(riskScores, k) ==
    IF k = 1 THEN RiskNames[1]
    ELSE LET a == PrimaryRisk(riskScores, k - 1)
             b == RiskNames[k]
         IN IF riskScores[a] > riskScores[b] THEN a ELSE b

GenerateSummary(riskScores, deliveryType, deliveryMode) ==
    LET primaryRisk == PrimaryRisk(riskScores, 6)
        riskLevel == IF riskScores[primaryRisk] > 70 THEN "high"
                     ELSE IF riskScores[primaryRisk] > 40 THEN "moderate"
                     ELSE "low"
    IN [template |-> riskLevel,
        riskName |-> IF riskLevel = "low" THEN "" ELSE FormatRiskName(primaryRisk),
        percent |-> IF riskLevel = "high" THEN deliveryType.Premature
                    ELSE deliveryType.FullTerm]

----------------------------------------------------------------------------
(* generateProgressionData.  A week is in tenths, a value is a rational.   *)

\* Math.random(): the j-th draw after the source was seeded, in tenths (a
\* number of [0, 1) with one fractional digit).  The source is a congruential
\* generator of period 10; which seed it holds at a call is not known.
Random(seed, j) == (3 * seed + 7 * j) % 10

\* Math.sin(i / 3) * 2 in thousandths, i = 1..40 (no projection is longer)
Sin2 ==
    <<654, 1237, 1683, 1944, 1991, 1819, 1446, 915, 282, -381,
      -1003, -1514, -1858, -1998, -1918, -1627, -1156, -559, 100, 748,
      1314, 1735, 1965, 1979, 1775, 1375, 824, 183, -479, -1088,
      -1577, -1893, -2000, -1887, -1566, -1073, -462, 200, 840, 1388>>

\* mutant: the loop runs while i < weeksToProject
PassesExclusive(weeksToProject) ==
    IF weeksToProject > 10 THEN (weeksToProject - 1) \div 10 ELSE 0

\* the number of passes of `for (let i = 1; i <= weeksToProject; i++)`
Passes(weeksToProject) == IF weeksToProject >= 10 THEN weeksToProject \div 10 ELSE 0

WeightPoint(startWeek, i, baseVitals) ==
    [week |-> startWeek + D(i),
     value |-> Rat(RoundValue1(10 * baseVitals.weight + 35 * i, 100), 10)]

FundalPoint(startWeek, i, seed) ==
    [week |-> startWeek + D(i),
     value |-> Rat(RoundValue1(startWeek + D(i)
                                + (2 * Random(seed, 4 * (i - 1) + 1) - 10), 10), 10)]

HbPoint(startWeek, i, baseVitals) ==
    [week |-> startWeek + D(i),
     value |-> Rat(RoundValue1(Max(1050, 10 * baseVitals.hb - 5 * i), 100), 10)]

SystolicPoint(startWeek, i, baseVitals, seed) ==
    [week |-> startWeek + D(i),
     value |-> Rat(MathRound(10 * baseVitals.bp.systolic + 25 * i
                             + 10 * (2 * Random(seed, 4 * (i - 1) + 2) - 10), 100), 1)]

DiastolicPoint(startWeek, i, baseVitals, seed) ==
    [week |-> startWeek + D(i),
     value |-> Rat(MathRound(10 * baseVitals.bp.diastolic + 15 * i
                             + 10 * (2 * Random(seed, 4 * (i - 1) + 3) - 10), 100), 1)]

FetalHrPoint(startWeek, i, baseVitals, seed) ==
    LET fhrValue == 100 * baseVitals.fhr + Sin2[i]
                    + 100 * (3 * Random(seed, 4 * (i - 1) + 4) - 15)
    IN [week |-> startWeek + D(i),
        value |-> Rat(MathRound(Min(160000, Max(120000, fhrValue)), 1000), 1)]

GenerateProgressionData(startWeek, weeksToProject, baseVitals, seed) ==
    LET n == Passes(weeksToProject)
    IN [weight |-> [i \in 1..n |-> WeightPoint(startWeek, i, baseVitals)],
        fundal |-> [i \in 1..n |-> FundalPoint(startWeek, i, seed)],
        hb |-> [i \in 1..n |-> HbPoint(startWeek, i, baseVitals)],
        systolic |-> [i \in 1..n |-> SystolicPoint(startWeek, i, baseVitals, seed)],
        diastolic |-> [i \in 1..n |-> DiastolicPoint(startWeek, i, baseVitals, seed)],
        fetal_hr |-> [i \in 1..n |-> FetalHrPoint(startWeek, i, baseVitals, seed)]]

----------------------------------------------------------------------------
(* generateProgression.  The vitals the model hands it are numbers or      *)
(* absent.                                                                 *)

\* p.value += (p.week - currentGA) * (trend * factor), factor = 1 / perUnit:
\* value and trend are rationals, the week difference is in tenths
Adjust(p, currentGA, trend, perUnit) ==
    [week |-> p.week,
     value |-> Rat(p.value.num * 10 * perUnit * trend.den
                   + (p.week - currentGA) * trend.num * p.value.den,
                   p.value.den * 10 * perUnit * trend.den)]

GenerateProgression(vs, currentGA, weeksToProject, seed) ==
    LET latest == vs[Len(vs)]
        bp == ParseBloodPressure(latest.BLOOD_PRESSURE).v
        base == [weight |-> Or(latest.MATERNAL_WEIGHT, Num(D(60))).n,
                 fundal |-> Or(latest.FUNDAL_HEIGHT, Num(currentGA)).n,
                 hb |-> Or(latest.HEMOGLOBIN_LEVEL, Num(115)).n,
                 fhr |-> Or(latest.FETAL_HEART_RATE, Num(D(145))).n,
                 bp |-> bp]
        weightTrend == CalculateTrend(vs, "MATERNAL_WEIGHT")
        hbTrend == CalculateTrend(vs, "HEMOGLOBIN_LEVEL")
        progression == GenerateProgressionData(currentGA, weeksToProject, base, seed)
    IN [progression EXCEPT
          !.weight = [i \in DOMAIN progression.weight |->
                         Adjust(progression.weight[i], currentGA, weightTrend, 10)],
          !.hb = [i \in DOMAIN progression.hb |->
                     Adjust(progression.hb[i], currentGA, hbTrend, 50)]]

----------------------------------------------------------------------------
(* getFallbackPrediction and generatePrediction *)

\* new Date().toISOString(): the reading of the clock is not modelled
Timestamp == "ISO-8601"

FallbackSummary == [template |-> "fallback", riskName |-> "", percent |-> 0]

GetFallbackPrediction(atTerm, seed) ==
    LET defaultGA == D(12)
        weeksToProject == IF atTerm THEN 0 ELSE D(40) - defaultGA
        baseVitals == [weight |-> D(60), fundal |-> D(12), hb |-> 115,
                       fhr |-> D(145),
                       bp |-> [systolic |-> D(115), diastolic |-> D(70)]]
    IN [deliveryType |-> [FullTerm |-> 80, Premature |-> 15, MortalityRisk |-> 5],
        deliveryMode |-> [Normal |-> 70, CSection |-> 30],
        progression |-> IF atTerm THEN <<>>
                        ELSE GenerateProgressionData(defaultGA, weeksToProject,
                                                     baseVitals, seed),
        summary |-> FallbackSummary,
        expectedGestationalAge |-> 390,
        expectedBirthWeight |-> 32,
        riskScores |-> <<>>,
        isFallback |-> TRUE,
        metadata |-> [source |-> "fallback-model", generatedAt |-> Timestamp]]

\* the pipeline of generatePrediction behind the two fallback exits; vs is
\* the sorted collection
FullPrediction(vs, p, seed) ==
    LET currentGA == GA(vs[Len(vs)])
        weeksToProject == Max(0, D(40) - currentGA)
        riskScores == CalculateRiskScores(vs, p)
        deliveryType == CalculateDeliveryTypeProbabilities(riskScores)
        deliveryMode == CalculateDeliveryModeProbabilities(riskScores, p)
        expected == CalculateExpectedDelivery(riskScores, deliveryType)
    IN [deliveryType |-> deliveryType,
        deliveryMode |-> deliveryMode,
        progression |-> GenerateProgression(vs, currentGA, weeksToProject, seed),
        summary |-> GenerateSummary(riskScores, deliveryType, deliveryMode),
        expectedGestationalAge |-> expected.expectedGestationalAge,
        expectedBirthWeight |-> expected.expectedBirthWeight,
        riskScores |-> riskScores,
        metadata |-> [currentGestationalAge |-> currentGA,
                      weeksProjected |-> weeksToProject,
                      visitCount |-> Len(vs),
                      generatedAt |-> Timestamp,
                      source |-> "rule-based-engine"]]

\* mutant: the at-term exit taken only past week 40
AtTermStrict(vs) == D(40) - GA(vs[Len(vs)]) < 0

\* weeksToProject <= 0 on the sorted collection
AtTerm(vs) == Max(0, D(40) - GA(vs[Len(vs)])) <= 0

\* engine.generatePrediction()
GeneratePrediction(seed) ==
    /\ pc = "ready"
    /\ UNCHANGED <<visits, patient, pc, arg>>
    /\ IF validatedVisits = <<>>
       THEN /\ validatedVisits' = validatedVisits
            /\ ret' = [op |-> "generatePrediction", threw |-> FALSE,
                       value |-> GetFallbackPrediction(FALSE, seed)]
       ELSE /\ validatedVisits' = SortByGA(validatedVisits)
            /\ ret' = IF AtTerm(SortByGA(validatedVisits))
                      THEN [op |-> "generatePrediction", threw |-> FALSE,
                            value |-> GetFallbackPrediction(TRUE, seed)]
                      ELSE IF CalculateRiskScoresThrows(SortByGA(validatedVisits),
                                                        patient)
                      THEN [op |-> "generatePrediction", threw |-> TRUE]
                      ELSE [op |-> "generatePrediction", threw |-> FALSE,
                            value |-> FullPrediction(SortByGA(validatedVisits),
                                                     patient, seed)]

\* engine.calculateRiskScores()
CallCalculateRiskScores ==
    /\ pc = "ready"
    /\ UNCHANGED <<visits, patient, validatedVisits, pc, arg>>
    /\ ret' = IF CalculateRiskScoresThrows(validatedVisits, patient)
              THEN [op |-> "calculateRiskScores", threw |-> TRUE]
              ELSE [op |-> "calculateRiskScores", threw |-> FALSE,
                    value |-> CalculateRiskScores(validatedVisits, patient)]

TrendFields == {"MATERNAL_WEIGHT", "HEMOGLOBIN_LEVEL"}

\* engine.calculateTrend(field)
CallCalculateTrend(field) ==
    /\ pc = "ready"
    /\ UNCHANGED <<visits, patient, validatedVisits, pc, arg>>
    /\ ret' = [op |-> "calculateTrend", threw |-> FALSE, field |-> field,
               value |-> CalculateTrend(validatedVisits, field)]

\* engine.generateProgression(currentGA, weeksToProject) with the arguments
\* generatePrediction computes from the last visit of the collection
CallGenerateProgression(seed) ==
    /\ pc = "ready"
    /\ UNCHANGED <<visits, patient, validatedVisits, pc, arg>>
    /\ ret' = IF validatedVisits = <<>>
              THEN [op |-> "generateProgression", threw |-> TRUE]
              ELSE [op |-> "generateProgression", threw |-> FALSE,
                    value |-> GenerateProgression(
                        validatedVisits, GA(validatedVisits[Len(validatedVisits)]),
                        Max(0, D(40) - GA(validatedVisits[Len(validatedVisits)])),
                        seed)]

----------------------------------------------------------------------------
(* The engine under the requests of its caller *)

\* visits of a pregnancy, as the caller's records hold them
Visit20 == RawVisit(Num(D(20)), Num(D(60)), Num(D(20)), Num(115),
                    Str(<<"1", "2", "0", "/", "8", "0">>), Num(D(145)))
Visit28 == RawVisit(Num(D(28)), Num(D(64)), Num(D(34)), Num(95),
                    Str(<<"1", "5", "0", "/", "9", "5">>), Undef)
Visit34 == RawVisit(Num(D(34)), Num(D(65)), Undef, Num(105), Num(D(120)), Num(D(150)))
Visit395 == RawVisit(Num(395), Undef, Undef, Undef, Undef, Undef)
Visit40 == RawVisit(Num(D(40)), Num(D(70)), Num(D(40)), Num(D(11)), Undef, Undef)
Visit41 == RawVisit(Num(D(41)), Undef, Undef, Undef, Undef, Undef)
VisitNoGA == RawVisit(Num(0), Num(D(58)), Undef, Undef, Undef, Undef)

VisitElems ==
    {Visit20, Visit28, Visit34, Visit395, Visit40, Visit41, VisitNoGA,
     NullElem, NumberElem}

SeqsUpTo(S, n) == UNION {[1..k -> S] : k \in 0..n}

VisitInputs ==
    {Arr(es) : es \in SeqsUpTo(VisitElems, MaxVisits)}
        \cup {NotArr(Undef), NotArr(Null), NotArr(Obj), NotArr(Str(<<"x">>))}

PatientInputs ==
    {NotPatient(Undef),
     EmptyPatient,
     PatientObj(Num(D(30)), Num(D(22)), Num(0), Undef),
     PatientObj(Num(D(40)), Num(D(32)), Str(<<"0">>), Str(<<"n", "o">>)),
     PatientObj(Num(D(17)), Num(D(27)), Num(D(1)),
                Str(<<"P", "r", "e", "t", "e", "r", "m">>)),
     PatientObj(Undef, Num(180), Str(<<"1">>), Null),
     PatientObj(Undef, Undef, Num(D(2)), Num(D(5)))}

Init ==
    /\ visits = Arr(<<>>)
    /\ patient = EmptyPatient
    /\ validatedVisits = <<>>
    /\ pc = "start"
    /\ ret = NoRet
    /\ arg = Undef

Next ==
    \/ \E v \in VisitInputs, p \in PatientInputs : Construct(v, p)
    \/ \E seed \in 0..MaxSeed : GeneratePrediction(seed)
    \/ CallCalculateRiskScores
    \/ \E field \in TrendFields : CallCalculateTrend(field)
    \/ \E seed \in 0..MaxSeed : CallGenerateProgression(seed)

Spec == Init /\ [][Next]_vars

----------------------------------------------------------------------------
(* BMIAverageCalculator: the reference table in tenths *)

UnderweightAverages ==
    [weight |-> <<500, 520, 540, 560, 580, 600, 620, 640,
          660, 680, 700, 720, 740, 760, 780, 800>>,
     fundal |-> <<120, 140, 160, 180, 200, 220, 240,
          260, 280, 300, 320, 340, 360, 380, 400>>,
     hemoglobin |-> <<120, 118, 116, 114, 112, 110, 108,
          106, 104, 102, 100, 98, 96, 94, 92>>,
     systolic |-> <<1100, 1120, 1140, 1160, 1180, 1200, 1220,
          1240, 1260, 1280, 1300, 1320, 1340, 1360, 1380>>,
     diastolic |-> <<700, 710, 720, 730, 740, 750, 760,
          770, 780, 790, 800, 810, 820, 830, 840>>]

NormalAverages ==
    [weight |-> <<550, 570, 590, 610, 630, 650, 670, 690,
          710, 730, 750, 770, 790, 810, 830, 850>>,
     fundal |-> <<120, 140, 160, 180, 200, 220, 240,
          260, 280, 300, 320, 340, 360, 380, 400>>,
     hemoglobin |-> <<122, 120, 118, 116, 114, 112, 110,
          108, 106, 104, 102, 100, 98, 96, 94>>,
     systolic |-> <<1150, 1170, 1190, 1210, 1230, 1250, 1270,
          1290, 1310, 1330, 1350, 1370, 1390, 1410, 1430>>,
     diastolic |-> <<700, 710, 720, 730, 740, 750, 760,
          770, 780, 790, 800, 810, 820, 830, 840>>]

OverweightAverages ==
    [weight |-> <<650, 670, 690, 710, 730, 750, 770, 790,
          810, 830, 850, 870, 890, 910, 930, 950>>,
     fundal |-> <<120, 140, 160, 180, 200, 220, 240,
          260, 280, 300, 320, 340, 360, 380, 400>>,
     hemoglobin |-> <<118, 116, 114, 112, 110, 108, 106,
          104, 102, 100, 98, 96, 94, 92, 90>>,
     systolic |-> <<1200, 1220, 1240, 1260, 1280, 1300, 1320,
          1340, 1360, 1380, 1400, 1420, 1440, 1460, 1480>>,
     diastolic |-> <<750, 760, 770, 780, 790, 800, 810,
          820, 830, 840, 850, 860, 870, 880, 890>>]

ObeseAverages ==
    [weight |-> <<750, 770, 790, 810, 830, 850, 870, 890,
          910, 930, 950, 970, 990, 1010, 1030, 1050>>,
     fundal |-> <<120, 140, 160, 180, 200, 220, 240,
          260, 280, 300, 320, 340, 360, 380, 400>>,
     hemoglobin |-> <<115, 113, 111, 109, 107, 105, 103,
          101, 99, 97, 95, 93, 91, 89, 87>>,
     systolic |-> <<1250, 1270, 1290, 1310, 1330, 1350, 1370,
          1390, 1410, 1430, 1450, 1470, 1490, 1510, 1530>>,
     diastolic |-> <<800, 810, 820, 830, 840, 850, 860,
          870, 880, 890, 900, 910, 920, 930, 940>>]

Metrics == {"weight", "fundal", "hemoglobin", "systolic", "diastolic"}

\* names every object literal inherits from Object.prototype: `averages[name]`
\* is a function or an object, which is truthy and holds no metric
InheritedNames == {"constructor", "toString", "__proto__"}

\* averages[bmiStatus] || averages.Normal; own says whether the value is one
\* of the four tables (table is not read otherwise)
GetBMIAverages(bmiStatus) ==
    CASE bmiStatus = "Underweight" -> [own |-> TRUE, table |-> UnderweightAverages]
      [] bmiStatus = "Normal" -> [own |-> TRUE, table |-> NormalAverages]
      [] bmiStatus = "Overweight" -> [own |-> TRUE, table |-> OverweightAverages]
      [] bmiStatus = "Obese" -> [own |-> TRUE, table |-> ObeseAverages]
      [] bmiStatus \in InheritedNames -> [own |-> FALSE, table |-> NormalAverages]
      [] OTHER -> [own |-> TRUE, table |-> NormalAverages]

GetMetricKey(metric) ==
    CASE metric = "weight" -> "MATERNAL_WEIGHT"
      [] metric = "fundal" -> "FUNDAL_HEIGHT"
      [] metric = "hemoglobin" -> "HEMOGLOBIN_LEVEL"
      [] metric = "systolic" -> "BP_SYSTOLIC"
      [] metric = "diastolic" -> "BP_DIASTOLIC"

\* averageValues[index], index counted from 0: undefined past the end
AverageAt(averageValues, index) ==
    IF index < Len(averageValues) THEN Num(averageValues[index + 1]) ELSE Undef

\* a - b on JavaScript values
Minus(a, b) ==
    IF ToNumber(a).t = "number" /\ ToNumber(b).t = "number"
    THEN Num(ToNumber(a).n - ToNumber(b).n)
    ELSE NaN

\* index >= averageValues.length
PastEnd(index, averageValues) == index >= Len(averageValues)

\* the record the map callback returns for a point it keeps
DeviationRecord(dataPoint, patientValue, averageValue) ==
    [week |-> dataPoint.GESTATIONAL_AGE_WEEKS,
     patientValue |-> patientValue,
     averageValue |-> averageValue,
     deviation |-> Minus(patientValue, averageValue),
     deviationPercent |->
         IF Minus(patientValue, averageValue).t = "number"
         THEN Rat(100 * Minus(patientValue, averageValue).n, averageValue.n)
         ELSE Rat(0, 0)]

\* the indices (from 0) at which the map callback keeps its point
KeptIndices(patientData, averageValues, metric) ==
    {i \in 0..(Len(patientData) - 1) :
        /\ ~PastEnd(i, averageValues)
        /\ Truthy(patientData[i + 1][GetMetricKey(metric)])}

\* the k-th smallest element of a set of numbers
Nth(S, k) == CHOOSE x \in S : Cardinality({y \in S : y < x}) = k - 1

\* calculateDeviation: threw when averageValues is undefined and the callback
\* runs; v the records in index order; reads the indices at which
\* averageValues[index] is evaluated
CalculateDeviation(patientData, bmiStatus, metric) ==
    LET averages == GetBMIAverages(bmiStatus)
        averageValues == averages.table[metric]
        kept == KeptIndices(patientData, averageValues, metric)
    IN IF ~averages.own
       THEN [threw |-> patientData # <<>>, v |-> <<>>, reads |-> {}]
       ELSE [threw |-> FALSE,
             v |-> [k \in 1..Cardinality(kept) |->
                      LET i == Nth(kept, k)
                      IN DeviationRecord(
                             patientData[i + 1],
                             patientData[i + 1][GetMetricKey(metric)],
                             AverageAt(averageValues, i))],
             reads |-> {i \in 0..(Len(patientData) - 1) :
                           ~PastEnd(i, averageValues)}]

----------------------------------------------------------------------------
(* The pure functions applied to an argument *)

\* the engine of `new PredictionEngine([], p)`
Constructed(p) ==
    /\ visits = Arr(<<>>)
    /\ patient = ThisPatient(p)
    /\ validatedVisits = <<>>
    /\ pc = "ready"
    /\ ret = NoRet

\* engine.parseBloodPressure(arg)
CallParseBloodPressure ==
    /\ pc = "ready"
    /\ ret' = [op |-> "parseBloodPressure",
               threw |-> ParseBloodPressure(arg).threw,
               value |-> ParseBloodPressure(arg).v]
    /\ UNCHANGED <<visits, patient, validatedVisits, pc, arg>>

\* engine.calculateDeliveryModeProbabilities(arg)
CallCalculateDeliveryMode ==
    /\ pc = "ready"
    /\ ret' = [op |-> "calculateDeliveryModeProbabilities", threw |-> FALSE,
               value |-> CalculateDeliveryModeProbabilities(arg, patient)]
    /\ UNCHANGED <<visits, patient, validatedVisits, pc, arg>>

\* BMIAverageCalculator.calculateDeviation(arg.patientData, arg.bmiStatus,
\* arg.metric)
CallCalculateDeviation ==
    /\ ret' = [op |-> "calculateDeviation",
               threw |-> CalculateDeviation(arg.patientData, arg.bmiStatus,
                                            arg.metric).threw,
               value |-> CalculateDeviation(arg.patientData, arg.bmiStatus,
                                            arg.metric).v,
               reads |-> CalculateDeviation(arg.patientData, arg.bmiStatus,
                                            arg.metric).reads]
    /\ UNCHANGED <<visits, patient, validatedVisits, pc, arg>>

BpChars == {"1", "2", "0", "8", "/", "a"}

BpInputs ==
    {Undef, Null, Num(0), Num(D(120)), Obj, Str(<<"a", "b", "c">>),
     Str(<<"1", "2", "0", "/", "8", "0">>),
     Str(<<"1", "2", "0", "/", "/", "8", "0">>)}
        \cup {Str(cs) : cs \in SeqsUpTo(BpChars, MaxBpLen)}

InitBP == Constructed(EmptyPatient) /\ arg \in BpInputs

SpecBP == InitBP /\ [][CallParseBloodPressure]_vars

\* risk-score sets: the three scores the delivery mode reads range over the
\* tenths of [0, 1]
Tenths == {10 * k : k \in 0..10}

ScoreSets ==
    {[anemia |-> 10, hypertension |-> h, growthRestriction |-> g,
      pretermRisk |-> 10, maternalAgeRisk |-> 10, bmiRisk |-> b] :
        h \in Tenths, g \in Tenths, b \in Tenths}

ParityValues == {Undef, Null, Num(0), Str(<<"0">>), Num(D(1)), Str(<<"1">>), Str(<<>>)}

InitMode ==
    /\ \E parity \in ParityValues : Constructed(PatientObj(Undef, Undef, parity, Undef))
    /\ arg \in ScoreSets

SpecMode == InitMode /\ [][CallCalculateDeliveryMode]_vars

\* a patient series of the given length; the point at index hole (from 1; 0
\* for none) holds the falsy value in every metric
DataPoint(i, isHole, falsy) ==
    [GESTATIONAL_AGE_WEEKS |-> Num(D(10 + 2 * i)),
     MATERNAL_WEIGHT |-> IF isHole THEN falsy ELSE Num(D(55) + 25 * i),
     FUNDAL_HEIGHT |-> IF isHole THEN falsy ELSE Num(D(10) + 21 * i),
     HEMOGLOBIN_LEVEL |-> IF isHole THEN falsy ELSE Num(125 - i),
     BP_SYSTOLIC |-> IF isHole THEN falsy ELSE Num(D(112) + 15 * i),
     BP_DIASTOLIC |-> IF isHole THEN falsy ELSE Num(D(72) + 5 * i)]

Series(len, hole, falsy) == [i \in 1..len |-> DataPoint(i, i = hole, falsy)]

BmiStatuses ==
    {"Underweight", "Normal", "Overweight", "Obese", "normal", "undefined",
     "constructor"}

DeviationInputs ==
    {[patientData |-> Series(len, hole, falsy), bmiStatus |-> b, metric |-> m] :
        len \in 0..MaxSeries, hole \in {0, 1, 2, 15, 16, MaxSeries},
        falsy \in {Undef, Null, Num(0)},
        b \in BmiStatuses, m \in Metrics}

InitDeviation ==
    /\ visits = Arr(<<>>)
    /\ patient = EmptyPatient
    /\ validatedVisits = <<>>
    /\ pc = "start"
    /\ ret = NoRet
    /\ arg \in DeviationInputs

SpecDeviation == InitDeviation /\ [][CallCalculateDeviation]_vars

\* the normalizer under arrays of every mix of present, absent, zero and
\* negative gestational ages
ValidateElems ==
    {RawVisit(ga, w, Undef, Undef, Str(<<>>), Undef) :
        ga \in {Undef, Null, Num(0), Num(-10), Num(5), Num(D(20)),
                Str(<<"2", "0">>)},
        w \in {Undef, Num(0), Num(D(60))}}
        \cup {NullElem, NumberElem}

ValidateInputs ==
    {Arr(es) : es \in SeqsUpTo(ValidateElems, MaxVisits)}
        \cup {NotArr(Undef), NotArr(Null), NotArr(Obj), NotArr(Str(<<"x">>)),
              NotArr(Num(0))}

NextValidate == \E v \in ValidateInputs : Construct(v, EmptyPatient)

SpecValidate == Init /\ [][NextValidate]_vars

\* the trend under visits in every order of gestational age, equal ages
\* included
TrendElems ==
    {RawVisit(ga, w, Undef, hb, Undef, Undef) :
        ga \in {Num(D(20)), Num(D(22)), Num(D(30))},
        w \in {Undef, Num(D(60)), Num(D(63))},
        hb \in {Num(D(11)), Num(D(12))}}

TrendInputs == {Arr(es) : es \in SeqsUpTo(TrendElems, MaxVisits)}

NextTrend ==
    \/ \E v \in TrendInputs : Construct(v, EmptyPatient)
    \/ \E field \in TrendFields : CallCalculateTrend(field)

SpecTrend == Init /\ [][NextTrend]_vars

\* the risk scorer under one visit and one patient on each side of every
\* threshold
RiskVisits ==
    {RawVisit(Num(ga), Undef, IF off = 0 THEN Undef ELSE Num(ga + off - 1), hb, bp,
              Undef) :
        ga \in {D(31), 365, D(40)},
        off \in {0, 31, -49},
        hb \in {Undef, Num(95), Num(D(11))},
        bp \in {Undef, Str(<<"1", "3", "0", "/", "8", "0">>),
                Str(<<"1", "2", "0", "/", "9", "5">>)}}

RiskPatients ==
    {PatientObj(age, bmi, parity, history) :
        age \in {Undef, Num(D(36))},
        bmi \in {Undef, Num(D(22)), Num(D(31))},
        parity \in {Num(0), Num(D(1))},
        history \in {Undef, Str(<<"P", "r", "e", "t", "e", "r", "m">>), Num(D(5))}}

NextRisk ==
    \/ \E v \in RiskVisits, p \in RiskPatients : Construct(Arr(<<v>>), p)
    \/ CallCalculateRiskScores
    \/ \E seed \in 0..MaxSeed : GeneratePrediction(seed)

SpecRisk == Init /\ [][NextRisk]_vars

----------------------------------------------------------------------------
(* The claims *)

RiskNameSet == {RiskNames[k] : k \in 1..6}

SeriesNames == {"weight", "fundal", "hb", "systolic", "diastolic", "fetal_hr"}

Returned(op) == ret.op = op /\ ~ret.threw

\* the fixed constants of the fallback result
FallbackConstants(r) ==
    /\ "isFallback" \in DOMAIN r
    /\ r.isFallback = TRUE
    /\ r.deliveryType = [FullTerm |-> 80, Premature |-> 15, MortalityRisk |-> 5]
    /\ r.deliveryMode = [Normal |-> 70, CSection |-> 30]
    /\ r.expectedGestationalAge = 390
    /\ r.expectedBirthWeight = 32
    /\ DOMAIN r.riskScores = {}

\* C1: constructing a PredictionEngine and calling generatePrediction never
\* throws, whatever the visits and the patient are: neither the constructor
\* nor generatePrediction ends in an exception.
C1_NeverThrows ==
    ret.op \in {"constructor", "generatePrediction"} => ~ret.threw

\* C2: when the validated visit set is empty, generatePrediction returns the
\* fallback: isFallback true, deliveryType {0.80, 0.15, 0.05}, deliveryMode
\* {0.70, 0.30}, expectedGestationalAge 39.0, expectedBirthWeight 3.2, no
\* risk scores, and six progression series of exactly 28 entries each, for
\* the weeks 13, 14, ..., 40.
C2_EmptyVisitsFallback ==
    (ret.op = "generatePrediction" /\ validatedVisits = <<>>) =>
        /\ ~ret.threw
        /\ FallbackConstants(ret.value)
        /\ DOMAIN ret.value.progression = SeriesNames
        /\ \A name \in SeriesNames :
              /\ Len(ret.value.progression[name]) = 28
              /\ \A i \in 1..28 : ret.value.progression[name][i].week = D(12 + i)

\* C2 witness: an array whose only record is discarded by the normalizer was
\* answered with the 28-week fallback
C2_Witness ==
    /\ Returned("generatePrediction")
    /\ validatedVisits = <<>>
    /\ Len(visits.elems) = 1
    /\ visits.elems[1] = VisitNoGA
    /\ Len(ret.value.progression.weight) = 28

\* the highest gestational age among the validated visits
MaxGA == CHOOSE g \in {GA(validatedVisits[k]) : k \in DOMAIN validatedVisits} :
             \A k \in DOMAIN validatedVisits : GA(validatedVisits[k]) <= g

ResultFields ==
    {"deliveryType", "deliveryMode", "progression", "summary",
     "expectedGestationalAge", "expectedBirthWeight", "riskScores", "metadata"}

\* C3: for a non-empty validated visit set, every result generatePrediction
\* returns is the fallback (isFallback true, an empty progression object, the
\* fixed constants) when the highest gestational age is >= 40, and otherwise
\* the full pipeline result: isFallback unset, all six risk scores, all six
\* series and every result field present.
C3_FallbackExactlyAtTerm ==
    (Returned("generatePrediction") /\ validatedVisits # <<>>) =>
        IF MaxGA >= D(40)
        THEN /\ FallbackConstants(ret.value)
             /\ DOMAIN ret.value.progression = {}
        ELSE /\ DOMAIN ret.value = ResultFields
             /\ DOMAIN ret.value.riskScores = RiskNameSet
             /\ DOMAIN ret.value.progression = SeriesNames

\* C3 witness: two visits given latest first, the latest exactly at week 40,
\* answered with the fallback
C3_Witness ==
    /\ Returned("generatePrediction")
    /\ Len(validatedVisits) = 2
    /\ visits.elems[1] = Visit40
    /\ visits.elems[2] = Visit20
    /\ "isFallback" \in DOMAIN ret.value

\* each probability of a distribution is in [0, 1] and the sum is within
\* 0.02 of 1
IsDistribution(d, names) ==
    /\ DOMAIN d = names
    /\ \A k \in names : d[k] \in 0..100
    /\ \E sum \in 98..102 :
          sum = IF names = {"Normal", "CSection"}
                THEN d.Normal + d.CSection
                ELSE d.FullTerm + d.Premature + d.MortalityRisk

\* C4: for every non-empty validated visit set and every patient, the
\* deliveryType generatePrediction returns has FullTerm, Premature and
\* MortalityRisk each in [0, 1] with a sum within 0.02 of 1, and the
\* deliveryMode has Normal and CSection each in [0, 1] with a sum within 0.02
\* of 1, on the normal path and on the at-term fallback path alike.
C4_Distributions ==
    (Returned("generatePrediction") /\ validatedVisits # <<>>) =>
        /\ IsDistribution(ret.value.deliveryType,
                          {"FullTerm", "Premature", "MortalityRisk"})
        /\ IsDistribution(ret.value.deliveryMode, {"Normal", "CSection"})

\* C4 witness: a normal-path result whose three rounded probabilities sum to
\* 1.01
C4_Witness ==
    /\ Returned("generatePrediction")
    /\ validatedVisits # <<>>
    /\ "isFallback" \notin DOMAIN ret.value
    /\ ret.value.deliveryType.FullTerm + ret.value.deliveryType.Premature
           + ret.value.deliveryType.MortalityRisk = 101

\* C5: for every latest visit and every patient record, calculateRiskScores
\* returns exactly the six named scores and each of them is in [0, 1].
C5_SixScoresInUnitInterval ==
    Returned("calculateRiskScores") =>
        /\ DOMAIN ret.value = RiskNameSet
        /\ \A name \in RiskNameSet : ret.value[name] \in 0..100

\* C5 witness: the scorer returned its highest bands for anemia, hypertension,
\* growth restriction, preterm history, maternal age and BMI together
C5_Witness ==
    /\ Returned("calculateRiskScores")
    /\ ret.value = [anemia |-> 80, hypertension |-> 90, growthRestriction |-> 70,
                    pretermRisk |-> 60, maternalAgeRisk |-> 40, bmiRisk |-> 50]

\* the halves of the blood-pressure string: the segments between its slashes
Halves == IF arg.t = "string" THEN Split(arg.s, "/") ELSE <<>>

\* the k-th half is a run of digits with a non-zero value
HalfParses(k) ==
    /\ k <= Len(Halves)
    /\ Halves[k] # <<>>
    /\ \A i \in 1..Len(Halves[k]) : IsDigit(Halves[k][i])
    /\ DigitsVal(Halves[k]) # 0

\* C6: parseBloodPressure never raises and returns, for every input, the
\* parsed number of each half that parses to a non-zero number and the
\* default of each half that does not (systolic 115, diastolic 70): {115, 70}
\* for an absent or empty input and for one with no parsable half such as
\* "abc", {120, 80} for "120/80".
C6_ParseBloodPressure ==
    ret.op = "parseBloodPressure" =>
        /\ ~ret.threw
        /\ ret.value.systolic =
               IF HalfParses(1) THEN D(DigitsVal(Halves[1])) ELSE D(115)
        /\ ret.value.diastolic =
               IF HalfParses(2) THEN D(DigitsVal(Halves[2])) ELSE D(70)
        /\ arg \in {Undef, Null, Str(<<>>), Str(<<"a", "b", "c">>)} =>
               ret.value = [systolic |-> D(115), diastolic |-> D(70)]
        /\ arg = Str(<<"1", "2", "0", "/", "8", "0">>) =>
               ret.value = [systolic |-> D(120), diastolic |-> D(80)]

\* C6 witness: a string with no first half and a parsable second half was
\* answered with the systolic default and the parsed diastolic value
C6_Witness ==
    /\ Returned("parseBloodPressure")
    /\ arg = Str(<<"/", "8", "0">>)
    /\ ret.value = [systolic |-> D(115), diastolic |-> D(80)]

\* the gestational age of an input element is present and > 0
GAPresentPositive(e) ==
    /\ e.t = "object"
    /\ e.f.GESTATIONAL_AGE_WEEKS.t \in {"number", "string"}
    /\ ToNumber(e.f.GESTATIONAL_AGE_WEEKS).n > 0

\* the positions (from 1) of the input records the normalizer keeps
KeptElems ==
    {k \in 1..Len(visits.elems) : GAPresentPositive(visits.elems[k])}

\* an input record reduced to the eight recognized fields, a missing or falsy
\* field set to null
Reduced(e) == [k \in VisitFields |-> IF Truthy(e.f[k]) THEN e.f[k] ELSE Null]

\* C7: validateVisits returns exactly the input records whose gestational
\* age is present and > 0, in their original relative order, each reduced to
\* the eight recognized fields with missing or falsy fields set to null;
\* records with a missing, zero or negative gestational age are dropped, and
\* an input that is no array yields the empty sequence.
C7_ValidatedVisits ==
    Returned("constructor") =>
        IF visits.t # "array" THEN validatedVisits = <<>>
        ELSE /\ Len(validatedVisits) = Cardinality(KeptElems)
             /\ \A j \in 1..Len(validatedVisits) :
                   validatedVisits[j] = Reduced(visits.elems[Nth(KeptElems, j)])

\* C7 witness: two records kept in the order given (the later week first),
\* their zero weight and absent fields null
C7_Witness ==
    /\ Returned("constructor")
    /\ Len(visits.elems) = 2
    /\ Len(validatedVisits) = 2
    /\ validatedVisits[1].GESTATIONAL_AGE_WEEKS = Num(D(20))
    /\ validatedVisits[2].GESTATIONAL_AGE_WEEKS = Num(5)
    /\ visits.elems[1].f.MATERNAL_WEIGHT = Num(0)
    /\ validatedVisits[1].MATERNAL_WEIGHT = Null
    /\ validatedVisits[1].COMPLICATIONS = Null

\* the first and the last visit in gestational-age order: among visits of
\* the same age the stable sort keeps the order of the collection
FirstByGA ==
    CHOOSE k \in 1..Len(validatedVisits) :
        \A j \in 1..Len(validatedVisits) :
            \/ GA(validatedVisits[k]) < GA(validatedVisits[j])
            \/ GA(validatedVisits[k]) = GA(validatedVisits[j]) /\ k <= j

LastByGA ==
    CHOOSE k \in 1..Len(validatedVisits) :
        \A j \in 1..Len(validatedVisits) :
            \/ GA(validatedVisits[k]) > GA(validatedVisits[j])
            \/ GA(validatedVisits[k]) = GA(validatedVisits[j]) /\ k >= j

\* C8: calculateTrend returns 0 with fewer than two validated visits, when
\* the smallest and the largest gestational age are equal, and when the
\* metric is missing on the first or the last visit in gestational-age
\* order; otherwise it returns (last - first) / (lastGA - firstGA), a
\* quotient whose divisor is not zero.
C8_TrendZeroCasesAndSlope ==
    ret.op = "calculateTrend" =>
        /\ ~ret.threw
        /\ IF Len(validatedVisits) < 2 THEN ret.value = Rat(0, 1)
           ELSE LET first == validatedVisits[FirstByGA]
                    last == validatedVisits[LastByGA]
                IN IF \/ GA(first) = GA(last)
                      \/ first[ret.field] = Null
                      \/ last[ret.field] = Null
                   THEN ret.value = Rat(0, 1)
                   ELSE /\ ret.value.den # 0
                        /\ ret.value.num * (GA(last) - GA(first)) =
                               (last[ret.field].n - first[ret.field].n)
                                   * ret.value.den

\* C8 witness: two visits given latest first, the weight 63 at week 30 and 60
\* at week 20, answered with the slope 0.3 per week
C8_Witness ==
    /\ Returned("calculateTrend")
    /\ ret.field = "MATERNAL_WEIGHT"
    /\ Len(validatedVisits) = 2
    /\ validatedVisits[1].GESTATIONAL_AGE_WEEKS = Num(D(30))
    /\ validatedVisits[1].MATERNAL_WEIGHT = Num(D(63))
    /\ validatedVisits[2].GESTATIONAL_AGE_WEEKS = Num(D(20))
    /\ validatedVisits[2].MATERNAL_WEIGHT = Num(D(60))
    /\ ret.value.den # 0
    /\ 10 * ret.value.num = 3 * ret.value.den

\* the risk min(0.7, 0.4 h + 0.3 g + 0.2 b + parity term) in thousandths
ExpectedCSectionRisk ==
    LET parityTerm == IF \/ patient.f.PARITY = Num(0)
                         \/ patient.f.PARITY = Str(<<"0">>)
                      THEN 100 ELSE 0
        weighted == 4 * arg.hypertension + 3 * arg.growthRestriction
                        + 2 * arg.bmiRisk + parityTerm
    IN IF weighted > 700 THEN 700 ELSE weighted

\* C9: for every risk-score set and patient,
\* calculateDeliveryModeProbabilities returns CSection = round2(min(0.7,
\* 0.4 hypertension + 0.3 growthRestriction + 0.2 bmiRisk + 0.1 when parity
\* is 0 or "0")) and Normal = round2(1 - that risk); 0.9, 0.7, 0.5 and
\* parity 0 give {Normal: 0.30, CSection: 0.70}; CSection never exceeds 0.70.
C9_DeliveryModeFormula ==
    ret.op = "calculateDeliveryModeProbabilities" =>
        /\ ~ret.threw
        /\ ret.value.CSection = (ExpectedCSectionRisk + 5) \div 10
        /\ ret.value.Normal = (1000 - ExpectedCSectionRisk + 5) \div 10
        /\ ret.value.CSection <= 70
        /\ (/\ arg.hypertension = 90
            /\ arg.growthRestriction = 70
            /\ arg.bmiRisk = 50
            /\ patient.f.PARITY = Num(0)) =>
               ret.value = [Normal |-> 30, CSection |-> 70]

\* C9 witness: the parity "0" of a string lifted the risk of 0.4 * 0.5 +
\* 0.3 * 0.5 + 0.2 * 0.5 from 0.45 to 0.55
C9_Witness ==
    /\ Returned("calculateDeliveryModeProbabilities")
    /\ arg.hypertension = 50
    /\ arg.growthRestriction = 50
    /\ arg.bmiRisk = 50
    /\ patient.f.PARITY = Str(<<"0">>)
    /\ ret.value = [Normal |-> 45, CSection |-> 55]

\* the reference sequence of a category and metric: the category's own when
\* it is one of the four, Normal's for every other name
ReferenceFor(bmiStatus, metric) ==
    CASE bmiStatus = "Underweight" -> UnderweightAverages[metric]
      [] bmiStatus = "Overweight" -> OverweightAverages[metric]
      [] bmiStatus = "Obese" -> ObeseAverages[metric]
      [] OTHER -> NormalAverages[metric]

\* the positions (from 1) of the patient points below the reference length
\* whose value is truthy
DeviationPoints ==
    {i \in 1..Len(arg.patientData) :
        /\ i <= Len(ReferenceFor(arg.bmiStatus, arg.metric))
        /\ Truthy(arg.patientData[i][GetMetricKey(arg.metric)])}

\* the records of a result, in index order, are those of DeviationPoints
DeviationRecordsHold ==
    /\ Len(ret.value) = Cardinality(DeviationPoints)
    /\ \A k \in 1..Len(ret.value) :
          LET i == Nth(DeviationPoints, k)
              patientValue == arg.patientData[i][GetMetricKey(arg.metric)]
              averageValue == ReferenceFor(arg.bmiStatus, arg.metric)[i]
          IN /\ Truthy(ret.value[k].patientValue)
             /\ ret.value[k].patientValue = patientValue
             /\ ret.value[k].averageValue = Num(averageValue)
             /\ ret.value[k].deviation = Num(patientValue.n - averageValue)
    /\ \A i \in ret.reads : i < Len(ReferenceFor(arg.bmiStatus, arg.metric))

\* C10: for every patient series, every category name (one of the four, or
\* any other name, which falls back to Normal) and every metric,
\* calculateDeviation returns, in index order, one record per patient point
\* whose index is below the reference length and whose value is truthy, with
\* averageValue the reference value at that index and deviation =
\* patientValue - averageValue; no record for a falsy value, no read of the
\* reference sequence at an index >= its length.
C10_DeviationOfEverySeries ==
    ret.op = "calculateDeviation" => (~ret.threw /\ DeviationRecordsHold)

\* the result is one of the normal path
NormalPath == Returned("generatePrediction") /\ "isFallback" \notin DOMAIN ret.value

\* the first name, in the encounter order of the six scores, whose score is
\* the maximum
FirstMaximal(riskScores) ==
    RiskNames[CHOOSE k \in 1..6 :
        /\ \A j \in 1..6 : riskScores[RiskNames[j]] <= riskScores[RiskNames[k]]
        /\ \A j \in 1..(k - 1) :
              riskScores[RiskNames[j]] < riskScores[RiskNames[k]]]

\* C11: generateSummary names as primary risk the risk with the maximum
\* score, and among several risks sharing the maximum the first in the order
\* anemia, hypertension, growthRestriction, pretermRisk, maternalAgeRisk,
\* bmiRisk: every summary that names a risk names that one.
C11_FirstMaximalRiskNamed ==
    (NormalPath /\ ret.value.summary.template # "low") =>
        ret.value.summary.riskName =
            FormatRiskName(FirstMaximal(ret.value.riskScores))

MetadataFields ==
    {"currentGestationalAge", "weeksProjected", "visitCount", "generatedAt",
     "source"}

\* C12: every result generatePrediction returns, on the normal path and on
\* both fallback paths, has the fields deliveryType, deliveryMode,
\* progression, summary, expectedGestationalAge, expectedBirthWeight,
\* riskScores and metadata, and its metadata has the five fields
\* currentGestationalAge, weeksProjected, visitCount, generatedAt and source.
C12_ResultAndMetadataFields ==
    Returned("generatePrediction") =>
        /\ ResultFields \subseteq DOMAIN ret.value
        /\ DOMAIN ret.value.metadata = MetadataFields

\* C13: the validated collection computed at construction is the same,
\* elements and order, after every call on the engine as before it.
C13_ValidatedVisitsImmutable ==
    [][pc = "ready" => validatedVisits' = validatedVisits]_vars

\* C14: on the normal path of generatePrediction the count of weeks to
\* project is at least 1 and each of the six progression series has at
\* least one entry, for every latest gestational age below 40.
C14_AtLeastOneWeekProjected ==
    NormalPath =>
        /\ ret.value.metadata.weeksProjected >= D(1)
        /\ \A name \in SeriesNames : Len(ret.value.progression[name]) >= 1

\* the positions in the collection of the visits with the highest and with
\* the lowest gestational age
LatestVisits ==
    {k \in 1..Len(validatedVisits) :
        \A j \in 1..Len(validatedVisits) :
            GA(validatedVisits[j]) <= GA(validatedVisits[k])}

EarliestVisits ==
    {k \in 1..Len(validatedVisits) :
        \A j \in 1..Len(validatedVisits) :
            GA(validatedVisits[j]) >= GA(validatedVisits[k])}

\* C15: in whatever order the visits were given, a normal-path result of
\* generatePrediction takes its risk scores, its currentGestationalAge and
\* the baseline vitals of its progression from a visit of the highest
\* gestational age (the trends from the visits of the lowest and the highest
\* age), and its distributions, expected outcomes and summary from those
\* risk scores: the result is a function of the set of visits, not of their
\* order.
C15_TakenFromLatestVisit ==
    NormalPath =>
        \E k \in LatestVisits :
            LET latest == validatedVisits[k]
                riskScores == CalculateRiskScores(<<latest>>, patient)
                deliveryType == CalculateDeliveryTypeProbabilities(riskScores)
                deliveryMode ==
                    CalculateDeliveryModeProbabilities(riskScores, patient)
            IN /\ ret.value.riskScores = riskScores
               /\ ret.value.metadata.currentGestationalAge = GA(latest)
               /\ ret.value.deliveryType = deliveryType
               /\ ret.value.deliveryMode = deliveryMode
               /\ ret.value.expectedGestationalAge =
                      CalculateExpectedDelivery(riskScores, deliveryType)
                          .expectedGestationalAge
               /\ ret.value.expectedBirthWeight =
                      CalculateExpectedDelivery(riskScores, deliveryType)
                          .expectedBirthWeight
               /\ ret.value.summary =
                      GenerateSummary(riskScores, deliveryType, deliveryMode)
               /\ \E e \in EarliestVisits, seed \in 0..MaxSeed :
                      ret.value.progression =
                          GenerateProgression(<<validatedVisits[e], latest>>,
                                              GA(latest), D(40) - GA(latest), seed)

\* C15 witness: the visits of weeks 34 and 20 given latest first; the result
\* has the anemia score of the hemoglobin 10.5 of week 34 and the current
\* gestational age 34
C15_Witness ==
    /\ NormalPath
    /\ Len(visits.elems) = 2
    /\ visits.elems[1] = Visit34
    /\ visits.elems[2] = Visit20
    /\ ret.value.riskScores.anemia = 40
    /\ ret.value.metadata.currentGestationalAge = D(34)

\* C16: every value of the weight and hemoglobin series of a progression
\* generatePrediction returns is a multiple of 0.1, also after the trend
\* adjustment of the normal path.
C16_WeightAndHbOneDecimal ==
    Returned("generatePrediction") =>
        \A name \in {"weight", "hb"} \cap DOMAIN ret.value.progression :
            \A i \in DOMAIN ret.value.progression[name] :
                (10 * ret.value.progression[name][i].value.num)
                    % ret.value.progression[name][i].value.den = 0

\* C17: on every normal path of generatePrediction pretermRisk and
\* maternalAgeRisk are at least 0.1, the six scores sum to at most 3.9 (an
\* average of 0.65), the Premature probability is above 0.15 and not above
\* 0.3, and so expectedGestationalAge is 38.0 and expectedBirthWeight is 3.3
\* less the three risk deductions only (and not below 2.5): the 39.2
\* baseline, the 36.5 branch and the 0.4 deduction are not reached.
C17_ExpectedGestationalAge38 ==
    NormalPath =>
        /\ ret.value.riskScores.pretermRisk >= 10
        /\ ret.value.riskScores.maternalAgeRisk >= 10
        /\ ret.value.riskScores.anemia + ret.value.riskScores.hypertension
               + ret.value.riskScores.growthRestriction
               + ret.value.riskScores.pretermRisk
               + ret.value.riskScores.maternalAgeRisk
               + ret.value.riskScores.bmiRisk <= 390
        /\ ret.value.deliveryType.Premature > 15
        /\ ret.value.deliveryType.Premature <= 30
        /\ ret.value.expectedGestationalAge = 380
        /\ ret.value.expectedBirthWeight =
               Max(25,
                   33 - (IF ret.value.riskScores.growthRestriction > 50
                         THEN 5 ELSE 0)
                      - (IF ret.value.riskScores.hypertension > 50 THEN 3 ELSE 0)
                      - (IF ret.value.riskScores.anemia > 50 THEN 2 ELSE 0))

\* C17 witness: a latest visit past week 37 with no vitals and an empty
\* patient record, the lowest scores there are: Premature is 0.16
C17_Witness ==
    /\ NormalPath
    /\ ret.value.riskScores =
           [anemia |-> 0, hypertension |-> 0, growthRestriction |-> 0,
            pretermRisk |-> 10, maternalAgeRisk |-> 10, bmiRisk |-> 0]
    /\ ret.value.deliveryType.Premature = 16
    /\ ret.value.expectedGestationalAge = 380

====
